---- MODULE Spec2Model ----
(***************************************************************************)
(* A model of sv-map-viewer (src/src/main.rs): the input state machine,    *)
(* the movement controller with its collision probe, the camera follower   *)
(* and the layer / sprite compositor.                                      *)
(*                                                                         *)
(* Units.  Sub-tile offsets are f64 pixels in the source; here they are    *)
(* integers in hundredths of a pixel (8.0 is 800, 7.99 is 799).  The       *)
(* elapsed time args.dt is an f64 in seconds; here it is an integer number *)
(* of 1/10000 s, so that MOVE_AMOUNT * dt (100 px/s) is dt hundredths of a *)
(* pixel and (dt * 1000.) as u32 is dt \div 10 milliseconds.               *)
(***************************************************************************)
EXTENDS Integers, Sequences, FiniteSets, TLC

VARIABLES
    app,         \* struct App: the viewport, the tick counter, the key flags
    player,      \* struct Player: cell, sub-tile offset, facing, last_move_start
    map,         \* the Map read at start, its layers' tiles sorted by main
    characters,  \* the Characters placed by the event (the NPCs)
    draws,       \* the draw operations emitted by the step just taken
    status,      \* "running", or "panicked" once an expect/unwrap has failed
    nudges       \* how many arrow-key presses have moved the viewport

vars == <<app, player, map, characters, draws, status, nudges>>

----------------------------------------------------------------------------
(* Bounds of the model *)

\* The tick counter (u32 in the source) is explored up to this many ms.
MaxTicks == 240

\* The arrow keys nudge the viewport by one pixel per press, without limit;
\* the model explores at most this many such presses in a run.
MaxNudge == 2

----------------------------------------------------------------------------
(* Program constants *)

\* const MOVE_AMOUNT: f64 = 100.0 (pixels per second)
MOVE_AMOUNT == 100

\* the 8. of move_horiz / move_vert / adjusted_pos, in hundredths of a pixel
EDGE == 800

\* the 7.99 of move_horiz / move_vert, in hundredths of a pixel
PIN == 799

\* the 16 of update's pixel position and max_x, and of render's culling
TILE == 16

\* WINDOW_DIMENSIONS
WINDOW_W == 800

WINDOW_H == 600

\* the cell the player is created at
START_X == 10

START_Y == 15

----------------------------------------------------------------------------
(* Option<u32> *)

None == <<>>

Some(v) == <<v>>

IsSome(o) == Len(o) = 1

Unwrap(o) == o[1]

----------------------------------------------------------------------------
(* Integer helpers: Rust's / on i32 truncates toward zero, and so does     *)
(* `as i32` on an f64.                                                     *)

TruncDiv(a, b) == IF a >= 0 THEN a \div b ELSE -((-a) \div b)

\* (offset as i32) for an offset held in hundredths of a pixel
AsI32(off) == TruncDiv(off, 100)

\* (dt * 1000.) as u32 for a dt held in 1/10000 s
Millis(dt) == dt \div 10

\* i32::MAX.  A u32 is held as the i32 with the same bits (`as i32`), the
\* integers of the model checker being 32 bits wide: a count below 2^31 as
\* itself, a count from 2^31 on as the negative number 2^32 below it.
I32_MAX == 2147483647

\* a <= b, of two u32
u32_le(a, b) == IF (a < 0) = (b < 0) THEN a <= b ELSE a >= 0

\* a + n, of a u32 a and n < 2^31, overflows (a.checked_add(n) is None)
overflows(a, n) == a < 0 /\ a + n >= 0

\* a.wrapping_add(n), n < 2^31
wrapping_add(a, n) ==
    IF a > I32_MAX - n THEN (a - I32_MAX - 1) + (n - I32_MAX - 1) ELSE a + n

\* a.wrapping_sub(b)
wrapping_sub(a, b) ==
    IF a >= 0 /\ b < 0 /\ a > I32_MAX + b
    THEN (a - I32_MAX - 1) - ((b + I32_MAX) + 1)
    ELSE IF a < 0 /\ b >= 0 /\ (a + I32_MAX) + 1 < b
    THEN ((a + I32_MAX) + 1) - (b - I32_MAX - 1)
    ELSE a - b

\* the two ways a build does u32 arithmetic that overflows: with overflow
\* checks (a debug build) it panics, without (a release build) it wraps
Builds == {"checked", "wrapping"}

\* the builds to tell apart at the addition a + n: both where it overflows,
\* and one, all builds adding alike, where it does not
BuildsAt(a, n) == IF overflows(a, n) THEN Builds ELSE {"wrapping"}

\* MOVE_AMOUNT * args.dt, in hundredths of a pixel
MoveDelta(dt) == (MOVE_AMOUNT * dt) \div 100

\* (self.view_w as f64 / SCALE) as i32, SCALE = 1.5
Zoomed(w) == (2 * w) \div 3

Max(a, b) == IF a >= b THEN a ELSE b

Min(a, b) == IF a <= b THEN a ELSE b

----------------------------------------------------------------------------
(* The map: xnb::tide::Map as the program reads it.  A layer is            *)
(* [id, visible, size, tiles], tiles a sequence of cell positions <<x, y>>. *)

Layer(id, visible, size, tiles) ==
    [id |-> id, visible |-> visible, size |-> size, tiles |-> tiles]

\* the comparison by column first, then row
TileLess_by_column(t1, t2) == t1[1] < t2[1] \/ (t1[1] = t2[1] /\ t1[2] < t2[2])

\* t1_y.cmp(&t2_y).then_with(|| t1_x.cmp(&t2_x)) == Less
TileLess(t1, t2) == t1[2] < t2[2] \/ (t1[2] = t2[2] /\ t1[1] < t2[1])

RECURSIVE InsertTile(_, _)
InsertTile(t, s) ==
    IF s = <<>> THEN <<t>>
    ELSE IF TileLess(t, s[1]) THEN <<t>> \o s
    ELSE <<s[1]>> \o InsertTile(t, Tail(s))

\* layer.tiles.sort_by(...): a stable sort, rows first, then columns
RECURSIVE SortTiles(_)
SortTiles(s) ==
    IF s = <<>> THEN <<>>
    ELSE InsertTile(s[Len(s)], SortTiles(SubSeq(s, 1, Len(s) - 1)))

\* main: for layer in &mut map.layers { layer.tiles.sort_by(...) }
SortLayers(layers) ==
    [i \in 1..Len(layers) |-> [layers[i] EXCEPT !.tiles = SortTiles(@)]]

\* map.layers.iter().find(|l| l.id == "Buildings")
HasBuildings(m) == \E i \in 1..Len(m.layers) : m.layers[i].id = "Buildings"

FindBuildings(m) ==
    LET i == CHOOSE i \in 1..Len(m.layers) :
                 /\ m.layers[i].id = "Buildings"
                 /\ \A j \in 1..(i - 1) : m.layers[j].id # "Buildings"
    IN m.layers[i]

\* the loop of update over layer.tiles: is there a tile at cell c?
TileAt(layer, c) == \E i \in 1..Len(layer.tiles) : layer.tiles[i] = c

----------------------------------------------------------------------------
(* Player *)

\* Player::adjusted_pos
adjusted_pos(p, delta_x, delta_y) ==
    LET ax == p.x + (IF delta_x < 0 /\ p.offset_x + delta_x < -EDGE THEN -1
                     ELSE IF delta_x > 0 /\ p.offset_x + delta_x > EDGE THEN 1
                     ELSE 0)
        ay == p.y + (IF delta_y < 0 /\ p.offset_y + delta_y < -EDGE THEN -1
                     ELSE IF delta_y > 0 /\ p.offset_y + delta_y > EDGE THEN 1
                     ELSE 0)
    IN <<ax, ay>>

\* move_horiz pinning a clamped offset on the boundary itself
move_horiz_pin_on_edge(p, delta, clamp_to_current_pos) ==
    LET off == p.offset_x + delta IN
    IF delta < 0 /\ off < -EDGE THEN
        IF clamp_to_current_pos THEN [p EXCEPT !.offset_x = -EDGE]
        ELSE [p EXCEPT !.offset_x = EDGE, !.x = p.x - 1]
    ELSE IF delta > 0 /\ off > EDGE THEN
        IF clamp_to_current_pos THEN [p EXCEPT !.offset_x = EDGE]
        ELSE [p EXCEPT !.offset_x = -EDGE, !.x = p.x + 1]
    ELSE [p EXCEPT !.offset_x = off]

\* Player::move_horiz
move_horiz(p, delta, clamp_to_current_pos) ==
    LET off == p.offset_x + delta IN
    IF delta < 0 /\ off < -EDGE THEN
        IF clamp_to_current_pos THEN [p EXCEPT !.offset_x = -PIN]
        ELSE [p EXCEPT !.offset_x = EDGE, !.x = p.x - 1]
    ELSE IF delta > 0 /\ off > EDGE THEN
        IF clamp_to_current_pos THEN [p EXCEPT !.offset_x = PIN]
        ELSE [p EXCEPT !.offset_x = -EDGE, !.x = p.x + 1]
    ELSE [p EXCEPT !.offset_x = off]

\* move_vert stepping to the next cell without resetting the offset
move_vert_keep_offset(p, delta, clamp_to_current_pos) ==
    LET off == p.offset_y + delta IN
    IF delta < 0 /\ off < -EDGE THEN
        IF clamp_to_current_pos THEN [p EXCEPT !.offset_y = -PIN]
        ELSE [p EXCEPT !.offset_y = off, !.y = p.y - 1]
    ELSE IF delta > 0 /\ off > EDGE THEN
        IF clamp_to_current_pos THEN [p EXCEPT !.offset_y = PIN]
        ELSE [p EXCEPT !.offset_y = off, !.y = p.y + 1]
    ELSE [p EXCEPT !.offset_y = off]

\* Player::move_vert
move_vert(p, delta, clamp_to_current_pos) ==
    LET off == p.offset_y + delta IN
    IF delta < 0 /\ off < -EDGE THEN
        IF clamp_to_current_pos THEN [p EXCEPT !.offset_y = -PIN]
        ELSE [p EXCEPT !.offset_y = EDGE, !.y = p.y - 1]
    ELSE IF delta > 0 /\ off > EDGE THEN
        IF clamp_to_current_pos THEN [p EXCEPT !.offset_y = PIN]
        ELSE [p EXCEPT !.offset_y = -EDGE, !.y = p.y + 1]
    ELSE [p EXCEPT !.offset_y = off]

----------------------------------------------------------------------------
(* App::key_released, App::key_pressed and the key arms of main's loop *)

MoveKeys == {"W", "A", "S", "D"}

ArrowKeys == {"Left", "Right", "Up", "Down"}

\* every other key of the keyboard stands as one
OtherKeys == {"Space"}

Keys == MoveKeys \cup ArrowKeys \cup OtherKeys

AnyHeld(a) == a.a_pressed \/ a.d_pressed \/ a.s_pressed \/ a.w_pressed

\* App::key_released
key_released(a, key) ==
    [a EXCEPT !.a_pressed = IF key = "A" THEN FALSE ELSE @,
              !.d_pressed = IF key = "D" THEN FALSE ELSE @,
              !.w_pressed = IF key = "W" THEN FALSE ELSE @,
              !.s_pressed = IF key = "S" THEN FALSE ELSE @,
              !.update_last_move = TRUE]

\* App::key_pressed
key_pressed(a, key) ==
    LET edge == \/ key = "W" /\ ~a.w_pressed
                \/ key = "S" /\ ~a.s_pressed
                \/ key = "A" /\ ~a.a_pressed
                \/ key = "D" /\ ~a.d_pressed
    IN [a EXCEPT !.update_last_move = IF edge THEN TRUE ELSE @,
                 !.a_pressed = IF key = "A" THEN TRUE ELSE @,
                 !.d_pressed = IF key = "D" THEN TRUE ELSE @,
                 !.s_pressed = IF key = "S" THEN TRUE ELSE @,
                 !.w_pressed = IF key = "W" THEN TRUE ELSE @]

\* main: the match on e.press_args()
press_args(a, k) ==
    IF k = "Left" /\ a.view_x > 0 THEN [a EXCEPT !.view_x = @ - 1]
    ELSE IF k = "Right" THEN [a EXCEPT !.view_x = @ + 1]
    ELSE IF k = "Up" /\ a.view_y > 0 THEN [a EXCEPT !.view_y = @ - 1]
    ELSE IF k = "Down" THEN [a EXCEPT !.view_y = @ + 1]
    ELSE key_pressed(a, k)

----------------------------------------------------------------------------
(* App::update *)

\* the recompute evaluating the keys in the order Right, Left, Down, Up
recompute_facing_up_last(a, p, ticks) ==
    IF AnyHeld(a) THEN
        LET d1 == IF a.d_pressed THEN "Right" ELSE p.dir
            d2 == IF a.a_pressed THEN "Left" ELSE d1
            d3 == IF a.s_pressed THEN "Down" ELSE d2
            d4 == IF a.w_pressed THEN "Up" ELSE d3
        IN [p EXCEPT !.dir = d4, !.last_move_start = Some(ticks)]
    ELSE [p EXCEPT !.last_move_start = None]

\* the recompute leaving last_move_start alone when no key is held
recompute_facing_keep_clock(a, p, ticks) ==
    IF AnyHeld(a) THEN
        LET d1 == IF a.w_pressed THEN "Up" ELSE p.dir
            d2 == IF a.s_pressed THEN "Down" ELSE d1
            d3 == IF a.a_pressed THEN "Left" ELSE d2
            d4 == IF a.d_pressed THEN "Right" ELSE d3
        IN [p EXCEPT !.dir = d4, !.last_move_start = Some(ticks)]
    ELSE p

\* the recompute of the facing and of last_move_start (update_last_move set)
recompute_facing(a, p, ticks) ==
    IF AnyHeld(a) THEN
        LET d1 == IF a.w_pressed THEN "Up" ELSE p.dir
            d2 == IF a.s_pressed THEN "Down" ELSE d1
            d3 == IF a.a_pressed THEN "Left" ELSE d2
            d4 == IF a.d_pressed THEN "Right" ELSE d3
        IN [p EXCEPT !.dir = d4, !.last_move_start = Some(ticks)]
    ELSE [p EXCEPT !.last_move_start = None]

\* let delta_x = if self.a_pressed {..} else if self.d_pressed {..} else {0.}
delta_x(a, dt) ==
    IF a.a_pressed THEN -MoveDelta(dt)
    ELSE IF a.d_pressed THEN MoveDelta(dt)
    ELSE 0

\* let delta_y = if self.w_pressed {..} else if self.s_pressed {..} else {0.}
delta_y(a, dt) ==
    IF a.w_pressed THEN -MoveDelta(dt)
    ELSE IF a.s_pressed THEN MoveDelta(dt)
    ELSE 0

\* the probe looking at the adjusted cell itself, not the cell below it
clamp_probe_head_cell(m, p, dx, dy) ==
    LET adj == adjusted_pos(p, dx, dy)
    IN TileAt(FindBuildings(m), <<adj[1], adj[2]>>)

\* clamp_to_current_pos: the probe of the "Buildings" layer
clamp_to_current_pos(m, p, dx, dy) ==
    LET adj == adjusted_pos(p, dx, dy)
    IN TileAt(FindBuildings(m), <<adj[1], adj[2] + 1>>)

\* each axis clamped by a probe of its own: the cell beside for move_horiz,
\* the cell above or below for move_vert
moved_probe_per_axis(m, p, dx, dy) ==
    LET clamp_x == clamp_to_current_pos(m, p, dx, 0)
        clamp_y == clamp_to_current_pos(m, p, 0, dy)
    IN move_vert(move_horiz(p, dx, clamp_x), dy, clamp_y)

\* the player after move_horiz and move_vert
moved(m, p, dx, dy) ==
    LET clamp == clamp_to_current_pos(m, p, dx, dy)
    IN move_vert(move_horiz(p, dx, clamp), dy, clamp)

\* the dead zone ending at 2 * w / 3 instead of w / 3 * 2
follow_two_thirds(pos, view, w) ==
    IF pos - view < w \div 3 THEN pos - w \div 3
    ELSE IF pos - view > (2 * w) \div 3 THEN pos - (2 * w) \div 3
    ELSE view

\* let adjusted_x = if player_x - self.view_x < view_w / 3 {..} ..
\* (one axis: pos the player's pixel position, view the origin, w the
\* zoom-adjusted extent)
follow(pos, view, w) ==
    IF pos - view < w \div 3 THEN pos - w \div 3
    ELSE IF pos - view > (w \div 3) * 2 THEN pos - (w \div 3) * 2
    ELSE view

\* let max_x = (map.layers[0].size.0 as i32 - view_w / 16) * 16
max_view(size, w) == (size - w \div TILE) * TILE

\* adjusted_x.max(0).min(max_x)
clamp_view(adjusted, max) == Min(Max(adjusted, 0), max)

\* the camera part of update
camera(a, p, m) ==
    LET player_x == p.x * TILE + AsI32(p.offset_x)
        player_y == p.y * TILE + AsI32(p.offset_y)
        view_w == Zoomed(a.view_w)
        view_h == Zoomed(a.view_h)
        size == m.layers[1].size
    IN [a EXCEPT
          !.view_x = clamp_view(follow(player_x, a.view_x, view_w),
                                max_view(size[1], view_w)),
          !.view_y = clamp_view(follow(player_y, a.view_y, view_h),
                                max_view(size[2], view_h))]

----------------------------------------------------------------------------
(* The sprites of main: a TextureTileInfo as                               *)
(* [width, index, tile_size, offset, dirs], the texture standing as its    *)
(* width in pixels, dirs indexed by the PlayerDir ordinal.                 *)

\* enum PlayerDir { Down = 0, Right = 1, Up = 2, Left = 3 }
DirOrd(d) == CASE d = "Down" -> 0 [] d = "Right" -> 1 [] d = "Up" -> 2 [] d = "Left" -> 3

Dirs == {"Down", "Right", "Up", "Left"}

Info(width, index, tile_size, offset, dirs) ==
    [width |-> width, index |-> index, tile_size |-> tile_size,
     offset |-> offset, dirs |-> dirs]

\* let base_dir_info = [Some(0), Some(2), Some(4), Some(2)]
base_dir_info == <<Some(0), Some(2), Some(4), Some(2)>>

\* main: the Player's parts; the textures are the game's farmer_base (288
\* pixels wide), hairstyles, shirts and accessories (128 pixels wide) sheets
PlayerParts ==
    [base      |-> Info(288, 0, <<16, 16>>, <<0, 0>>, base_dir_info),
     bottom    |-> Info(288, 24, <<16, 16>>, <<0, 16>>, base_dir_info),
     arms      |-> Info(288, 30, <<16, 16>>, <<0, 16>>, base_dir_info),
     hairstyle |-> Info(128, 0, <<16, 16>>, <<0, 0>>, base_dir_info),
     hat       |-> None,
     pants     |-> Info(288, 42, <<16, 16>>, <<0, 16>>, base_dir_info),
     shirt     |-> Info(128, 0, <<8, 8>>, <<4, 15>>,
                        <<Some(0), Some(1), Some(3), Some(2)>>),
     accessory |-> Info(128, 0, <<16, 16>>, <<0, 3>>,
                        <<Some(0), Some(1), None, Some(1)>>)]

\* the direction code read as the ordinal of PlayerDir
dir_for_code_ordinal(code) ==
    CASE code = 0 -> "Down" [] code = 1 -> "Right" [] code = 2 -> "Up" [] code = 3 -> "Left"

\* characters_for_event: the direction of a placed character
dir_for_code(code) ==
    CASE code = 0 -> "Up" [] code = 1 -> "Right" [] code = 2 -> "Down" [] code = 3 -> "Left"

\* characters_for_event: one Character per placement, the farmer skipped;
\* a character's texture is 64 pixels wide
RECURSIVE characters_for_event(_)
characters_for_event(placed) ==
    IF placed = <<>> THEN <<>>
    ELSE LET c == placed[1] IN
         (IF c.name = "farmer" THEN <<>>
          ELSE << [name |-> c.name,
                   texture |-> Info(64, 0, <<16, 32>>, <<0, 0>>,
                                    <<Some(0), Some(1), Some(2), Some(3)>>),
                   x |-> c.pos[1], y |-> c.pos[2],
                   offset_x |-> 0, offset_y |-> 0,
                   dir |-> dir_for_code(c.dir)] >>)
         \o characters_for_event(Tail(placed))

----------------------------------------------------------------------------
(* The state after main's construction *)

\* main: let mut player = Player { .. }
InitPlayer ==
    [parts |-> PlayerParts,
     x |-> START_X, y |-> START_Y, offset_x |-> 0, offset_y |-> 0,
     last_move_start |-> None, dir |-> "Down"]

\* main: let mut app = App { .. }; view the viewport argument in cells
InitApp(m, view) ==
    [view_x |-> view[1] * m.tile_size[1],
     view_y |-> view[2] * m.tile_size[2],
     view_w |-> WINDOW_W, view_h |-> WINDOW_H,
     ticks |-> 0,
     a_pressed |-> FALSE, d_pressed |-> FALSE,
     w_pressed |-> FALSE, s_pressed |-> FALSE,
     update_last_move |-> FALSE]

\* main, from the map file m, the viewport argument and the event's placements
InitFrom(maps, views, events) ==
    /\ \E m \in maps : map = [m EXCEPT !.layers = SortLayers(@)]
    /\ \E v \in views : app = InitApp(map, v)
    /\ \E e \in events : characters = characters_for_event(e)
    /\ player = InitPlayer
    /\ draws = <<>>
    /\ status = "running"
    /\ nudges = 0

----------------------------------------------------------------------------
(* The steps of main's event loop *)

\* e.press_args(): an arrow key moves the viewport, any other key goes to
\* key_pressed
Press(k) ==
    /\ status = "running"
    /\ LET a == press_args(app, k)
           nudged == a.view_x # app.view_x \/ a.view_y # app.view_y
       IN /\ nudged => nudges < MaxNudge
          /\ app' = a
          /\ nudges' = IF nudged THEN nudges + 1 ELSE nudges
    /\ draws' = <<>>
    /\ UNCHANGED <<player, map, characters, status>>

\* e.release_args()
Release(k) ==
    /\ status = "running"
    /\ app' = key_released(app, k)
    /\ draws' = <<>>
    /\ UNCHANGED <<player, map, characters, status, nudges>>

\* update looking for the "Buildings" layer after it has moved the player,
\* unclamped, and the camera
Update_probe_after_move(dt) ==
    /\ status = "running"
    /\ app.ticks + Millis(dt) <= MaxTicks
    /\ \E build \in BuildsAt(app.ticks, Millis(dt)) :
       LET ticks == wrapping_add(app.ticks, Millis(dt))
           a1 == [app EXCEPT !.ticks = ticks, !.update_last_move = FALSE]
           p1 == IF app.update_last_move
                 THEN recompute_facing(app, player, ticks) ELSE player
           dx == delta_x(app, dt)
           dy == delta_y(app, dt)
       IN IF build = "checked"
          THEN /\ status' = "panicked"
               /\ app' = app
               /\ player' = player
          ELSE IF ~HasBuildings(map)
          THEN LET p2 == move_vert(move_horiz(p1, dx, FALSE), dy, FALSE)
               IN /\ status' = "panicked"
                  /\ player' = p2
                  /\ app' = camera(a1, p2, map)
          ELSE LET p2 == moved(map, p1, dx, dy)
               IN /\ player' = p2
                  /\ app' = camera(a1, p2, map)
                  /\ status' = status
    /\ draws' = <<>>
    /\ UNCHANGED <<map, characters, nudges>>

\* e.update_args(): App::update, dt in 1/10000 s.  The guard bounds the tick
\* counter read as an i32: the ms before the end of the u32 range and the
\* first MaxTicks ms of it.
Update(dt) ==
    /\ status = "running"
    /\ app.ticks + Millis(dt) <= MaxTicks
    /\ \E build \in BuildsAt(app.ticks, Millis(dt)) :
       LET ticks == wrapping_add(app.ticks, Millis(dt))
           a1 == [app EXCEPT !.ticks = ticks, !.update_last_move = FALSE]
           p1 == IF app.update_last_move
                 THEN recompute_facing(app, player, ticks) ELSE player
           dx == delta_x(app, dt)
           dy == delta_y(app, dt)
       IN IF build = "checked"
          THEN \* self.ticks += ..: "attempt to add with overflow"
               /\ status' = "panicked"
               /\ app' = app
               /\ player' = player
          ELSE IF ~HasBuildings(map)
          THEN \* .expect("no buildings?")
               /\ status' = "panicked"
               /\ app' = a1
               /\ player' = p1
          ELSE LET p2 == moved(map, p1, dx, dy)
               IN /\ player' = p2
                  /\ app' = camera(a1, p2, map)
                  /\ status' = status
    /\ draws' = <<>>
    /\ UNCHANGED <<map, characters, nudges>>

----------------------------------------------------------------------------
(* App::render.  A draw operation is                                       *)
(*   [kind, layer, x, y, part, index, row, flip, src]:                     *)
(* kind "clear" (the clear of the screen), "tile" (a tile of layer `layer` *)
(* at cell x, y), "player" (one part of the player, drawn while layer      *)
(* `layer` is drawn) or "npc"; src is the source rectangle <<x, y, w, h>>  *)
(* of a sprite's image (<<>> for the clear and for a tile, whose tile      *)
(* sheets are not modelled).                                               *)

\* clear(BLACK, gl)
ClearOp ==
    [kind |-> "clear", layer |-> -1, x |-> 0, y |-> 0, part |-> "clear",
     index |-> 0, row |-> 0, flip |-> FALSE, src |-> <<>>]

\* the src_rect mirrored without moving its origin to the right edge
image_for_tile_reference_flip_in_place(num_h_tiles, tile_size, index, index_y_offset, flip_h) ==
    LET tile_w == tile_size[1]
        tile_h == tile_size[2]
        src_x == (index % num_h_tiles) * tile_w
        src_y == (index \div num_h_tiles + index_y_offset) * tile_h
    IN IF flip_h THEN <<src_x, src_y, -tile_w, tile_h>>
       ELSE <<src_x, src_y, tile_w, tile_h>>

\* image_for_tile_reference: the src_rect of the Image
image_for_tile_reference(num_h_tiles, tile_size, index, index_y_offset, flip_h) ==
    LET tile_w == tile_size[1]
        tile_h == tile_size[2]
        src_x == (index % num_h_tiles) * tile_w
        src_y == (index \div num_h_tiles + index_y_offset) * tile_h
    IN IF flip_h THEN <<src_x + tile_w, src_y, -tile_w, tile_h>>
       ELSE <<src_x, src_y, tile_w, tile_h>>

\* image_for_texture with a frame offset that never wraps
image_for_texture_no_wrap(texture, anim, dir) ==
    LET num_h_tiles == texture.width \div texture.tile_size[1]
        entry == texture.dirs[DirOrd(dir) + 1]
        base == IF IsSome(entry) THEN Unwrap(entry) ELSE 0
        flip == dir = "Left" /\ texture.dirs[DirOrd("Left") + 1]
                                  = texture.dirs[DirOrd("Right") + 1]
        anim_idx == IF IsSome(anim) THEN Unwrap(anim)[1] \div 150 ELSE 0
    IN [index |-> texture.index + anim_idx, row |-> base, flip |-> flip,
        src |-> image_for_tile_reference(num_h_tiles, texture.tile_size,
                                         texture.index + anim_idx, base, flip)]

\* image_for_texture: the frame index, the row offset, the flip and the
\* source rectangle of a part
image_for_texture(texture, anim, dir) ==
    LET num_h_tiles == texture.width \div texture.tile_size[1]
        entry == texture.dirs[DirOrd(dir) + 1]
        base == IF IsSome(entry) THEN Unwrap(entry) ELSE 0
        flip == dir = "Left" /\ texture.dirs[DirOrd("Left") + 1]
                                  = texture.dirs[DirOrd("Right") + 1]
        anim_idx == IF IsSome(anim)
                    THEN (Unwrap(anim)[1] \div 150) % Unwrap(anim)[2] ELSE 0
    IN [index |-> texture.index + anim_idx, row |-> base, flip |-> flip,
        src |-> image_for_tile_reference(num_h_tiles, texture.tile_size,
                                         texture.index + anim_idx, base, flip)]

PartOp(kind, layer, p, part, img) ==
    [kind |-> kind, layer |-> layer, x |-> p.x, y |-> p.y, part |-> part,
     index |-> img.index, row |-> img.row, flip |-> img.flip, src |-> img.src]

\* draw_player drawing the shirt before the pants
draw_player_shirt_first(p, layer, ticks) ==
    LET parts == p.parts
        player_ticks == IF IsSome(p.last_move_start)
                        THEN wrapping_sub(ticks, Unwrap(p.last_move_start)) ELSE 0
        three_frame == Some(<<player_ticks, 3>>)
        op(part, texture, anim) ==
            PartOp("player", layer, p, part, image_for_texture(texture, anim, p.dir))
    IN    << op("base", parts.base, three_frame),
             op("bottom", parts.bottom, three_frame),
             op("hairstyle", parts.hairstyle, None) >>
       \o (IF IsSome(parts.hat)
           THEN << op("hat", Unwrap(parts.hat), None) >> ELSE <<>>)
       \o << op("arms", parts.arms, three_frame),
             op("shirt", parts.shirt, None),
             op("pants", parts.pants, three_frame) >>
       \o (IF p.dir # "Up"
           THEN << op("accessory", parts.accessory, None) >> ELSE <<>>)

\* draw_player.  ticks - start is a u32 subtraction; start is above ticks
\* only once the counter has wrapped, which it does in a build that wraps.
draw_player(p, layer, ticks) ==
    LET parts == p.parts
        player_ticks == IF IsSome(p.last_move_start)
                        THEN wrapping_sub(ticks, Unwrap(p.last_move_start)) ELSE 0
        three_frame == Some(<<player_ticks, 3>>)
        op(part, texture, anim) ==
            PartOp("player", layer, p, part, image_for_texture(texture, anim, p.dir))
    IN    << op("base", parts.base, three_frame),
             op("bottom", parts.bottom, three_frame),
             op("hairstyle", parts.hairstyle, None) >>
       \o (IF IsSome(parts.hat)
           THEN << op("hat", Unwrap(parts.hat), None) >> ELSE <<>>)
       \o << op("arms", parts.arms, three_frame),
             op("pants", parts.pants, three_frame),
             op("shirt", parts.shirt, None) >>
       \o (IF p.dir # "Up"
           THEN << op("accessory", parts.accessory, None) >> ELSE <<>>)

\* draw_character
draw_character(c) ==
    IF c.x < 0 \/ c.y < 0 THEN <<>>
    ELSE << PartOp("npc", 0, c, c.name, image_for_texture(c.texture, None, c.dir)) >>

RECURSIVE draw_characters(_)
draw_characters(cs) ==
    IF cs = <<>> THEN <<>>
    ELSE draw_character(cs[1]) \o draw_characters(Tail(cs))

TileOp(layer, t) ==
    [kind |-> "tile", layer |-> layer, x |-> t[1], y |-> t[2], part |-> "tile",
     index |-> 0, row |-> 0, flip |-> FALSE, src |-> <<>>]

\* if x < view_x / 16 || x > view_w || y < view_y / 16 || y > view_h { continue }
culled(t, view, bound) ==
    \/ t[1] < TruncDiv(view[1], TILE)
    \/ t[1] > bound[1]
    \/ t[2] < TruncDiv(view[2], TILE)
    \/ t[2] > bound[2]

\* the interleave condition with x > player.x for x >= player.x
interleave_strict(t, last_pos, p) ==
    /\ t[2] = p.y + 1
    /\ t[1] > p.x
    /\ IF IsSome(last_pos) THEN Unwrap(last_pos)[1] < p.x ELSE FALSE

\* the interleave condition of draw_layer
interleave(t, last_pos, p) ==
    /\ t[2] = p.y + 1
    /\ t[1] >= p.x
    /\ IF IsSome(last_pos) THEN Unwrap(last_pos)[1] < p.x ELSE FALSE

\* draw_layer skipping the layers that are not visible only
draw_layer_paths_drawn(layer, li, ticks, view, bound, pl) ==
    IF ~layer.visible THEN <<>>
    ELSE LET RECURSIVE loop(_, _)
             loop(i, last_pos) ==
                 IF i > Len(layer.tiles) THEN <<>>
                 ELSE LET t == layer.tiles[i]
                      IN    (IF IsSome(pl) /\ interleave(t, last_pos, Unwrap(pl))
                             THEN draw_player(Unwrap(pl), li, ticks)
                             ELSE <<>>)
                         \o (IF culled(t, view, bound) THEN <<>>
                             ELSE << TileOp(li, t) >>)
                         \o loop(i + 1, Some(t))
         IN loop(1, None)

\* draw_layer culling a tile before the interleave check and before
\* last_pos is updated
draw_layer_cull_first(layer, li, ticks, view, bound, pl) ==
    IF ~layer.visible \/ layer.id = "Paths" THEN <<>>
    ELSE LET RECURSIVE loop(_, _)
             loop(i, last_pos) ==
                 IF i > Len(layer.tiles) THEN <<>>
                 ELSE LET t == layer.tiles[i]
                      IN IF culled(t, view, bound) THEN loop(i + 1, last_pos)
                         ELSE    (IF IsSome(pl) /\ interleave(t, last_pos, Unwrap(pl))
                                  THEN draw_player(Unwrap(pl), li, ticks)
                                  ELSE <<>>)
                              \o << TileOp(li, t) >>
                              \o loop(i + 1, Some(t))
         IN loop(1, None)

\* draw_layer: layer number li (from 0), pl the Option<&Player>
draw_layer(layer, li, ticks, view, bound, pl) ==
    IF ~layer.visible \/ layer.id = "Paths" THEN <<>>
    ELSE LET RECURSIVE loop(_, _)
             loop(i, last_pos) ==
                 IF i > Len(layer.tiles) THEN <<>>
                 ELSE LET t == layer.tiles[i]
                      IN    (IF IsSome(pl) /\ interleave(t, last_pos, Unwrap(pl))
                             THEN draw_player(Unwrap(pl), li, ticks)
                             ELSE <<>>)
                         \o (IF culled(t, view, bound) THEN <<>>
                             ELSE << TileOp(li, t) >>)
                         \o loop(i + 1, Some(t))
         IN loop(1, None)

\* the loop of render over all layers but the last
RECURSIVE draw_back_layers(_, _, _, _, _, _)
draw_back_layers(layers, i, ticks, view, bound, p) ==
    IF i >= Len(layers) THEN <<>>
    ELSE draw_layer(layers[i], i - 1, ticks, view, bound,
                    IF i - 1 = 1 THEN Some(p) ELSE None)
         \o draw_back_layers(layers, i + 1, ticks, view, bound, p)

\* the closure drawing the characters after the last layer
draw_all_characters_last(a, p, cs, layers, win) ==
    LET view == <<a.view_x, a.view_y>>
        bound == << TruncDiv(win[1], TILE) + TruncDiv(a.view_x, TILE),
                    TruncDiv(win[2], TILE) + TruncDiv(a.view_y, TILE) >>
    IN    <<ClearOp>>
       \o draw_back_layers(layers, 1, a.ticks, view, bound, p)
       \o draw_layer(layers[Len(layers)], Len(layers) - 1, a.ticks, view, bound, None)
       \o draw_characters(cs)

\* the closure of self.gl.draw, for a map with at least one layer
draw_all(a, p, cs, layers, win) ==
    LET view == <<a.view_x, a.view_y>>
        bound == << TruncDiv(win[1], TILE) + TruncDiv(a.view_x, TILE),
                    TruncDiv(win[2], TILE) + TruncDiv(a.view_y, TILE) >>
    IN    <<ClearOp>>
       \o draw_back_layers(layers, 1, a.ticks, view, bound, p)
       \o draw_characters(cs)
       \o draw_layer(layers[Len(layers)], Len(layers) - 1, a.ticks, view, bound, None)

\* e.render_args(): App::render, win the window size
Render(win) ==
    /\ status = "running"
    /\ app' = [app EXCEPT !.view_w = win[1], !.view_h = win[2]]
    /\ IF Len(map.layers) = 0
       THEN \* layers.len() - 1 overflows (a panic in a debug build); a release
            \* build wraps, draws the characters and panics in last().unwrap()
            /\ status' = "panicked"
            /\ draws' \in {<<ClearOp>>, <<ClearOp>> \o draw_characters(characters)}
       ELSE /\ status' = status
            /\ draws' = draw_all(app, player, characters, map.layers, win)
    /\ UNCHANGED <<player, map, characters, nudges>>

----------------------------------------------------------------------------
(* Inputs: maps, viewport arguments, events, elapsed times, window sizes   *)

\* a map file lists a layer's tiles in no particular order: here, last cell
\* first
RECURSIVE RawTiles(_)
RawTiles(S) ==
    IF S = {} THEN <<>>
    ELSE LET t == CHOOSE t \in S :
                      \A u \in S : u[2] < t[2] \/ (u[2] = t[2] /\ u[1] <= t[1])
         IN <<t>> \o RawTiles(S \ {t})

\* a map with the layers of a Stardew Valley map, of `size` cells, with the
\* given tiles on its Buildings and Front layers
StdMap(size, buildings, front) ==
    [tile_size |-> <<TILE, TILE>>,
     layers |-> << Layer("Back", TRUE, size, RawTiles({<<9, 15>>, <<10, 15>>, <<10, 16>>})),
                   Layer("Buildings", TRUE, size, RawTiles(buildings)),
                   Layer("Paths", TRUE, size, RawTiles({<<10, 16>>})),
                   Layer("Front", TRUE, size, RawTiles(front)),
                   Layer("AlwaysFront", TRUE, size, RawTiles({<<10, 14>>})) >>]

\* the cells around the start cell's feet
Near == (START_X - 1 .. START_X + 1) \X (START_Y .. START_Y + 2)

\* obstruction layouts: none, each single cell around the feet, a wall to the
\* right and below, and everything around the feet cell
Layouts ==
    {{}} \cup {{c} : c \in Near}
         \cup {{<<START_X + 1, START_Y>>, <<START_X + 1, START_Y + 1>>,
                <<START_X + 1, START_Y + 2>>, <<START_X, START_Y + 2>>}}
         \cup {Near \ {<<START_X, START_Y + 1>>}}

MoveMaps == {StdMap(<<40, 30>>, b, {}) : b \in Layouts}

\* elapsed times, in 1/10000 s: 80 ms (8 px) and 160 ms (16 px)
DtSet == {800, 1600}

MoveNext ==
    \/ \E k \in MoveKeys \cup OtherKeys : Press(k)
    \/ \E k \in MoveKeys \cup OtherKeys : Release(k)
    \/ \E dt \in DtSet : Update(dt)

MoveInit == InitFrom(MoveMaps, {<<0, 0>>}, {<<>>})

Spec == MoveInit /\ [][MoveNext]_vars

----------------------------------------------------------------------------
(* Movement: the claims' vocabulary *)

\* the direction in which the candidate offset off + delta leaves [-8, 8]
Crossing(off, delta) ==
    IF off + delta > EDGE THEN 1 ELSE IF off + delta < -EDGE THEN -1 ELSE 0

\* the Buildings layer has a tile at cell c
Obstructed(c) == HasBuildings(map) /\ TileAt(FindBuildings(map), c)

\* the cell probed by an update with the deltas dx, dy from the current state
Probed(dx, dy) ==
    << player.x + Crossing(player.offset_x, dx),
       player.y + Crossing(player.offset_y, dy) + 1 >>

\* C1. Collision clamp: an update step that finds a Buildings tile at the
\* probed cell (adjusted_x, adjusted_y + 1) leaves the player's cell as it
\* was, and pins the offset of every axis whose candidate offset crossed the
\* boundary to +7.99 (crossing +8) or -7.99 (crossing -8), never to 8.0.
C1_CollisionClamp ==
    [][\A dt \in DtSet :
        LET dx == delta_x(app, dt)
            dy == delta_y(app, dt)
            cx == Crossing(player.offset_x, dx)
            cy == Crossing(player.offset_y, dy)
        IN (Update(dt) /\ Obstructed(Probed(dx, dy))) =>
              /\ player'.x = player.x
              /\ player'.y = player.y
              /\ cx = 1 => player'.offset_x = PIN
              /\ cx = -1 => player'.offset_x = -PIN
              /\ cy = 1 => player'.offset_y = PIN
              /\ cy = -1 => player'.offset_y = -PIN
              /\ cx # 0 => player'.offset_x \notin {EDGE, -EDGE}
              /\ cy # 0 => player'.offset_y \notin {EDGE, -EDGE}]_vars

\* C1 witness: the player has been clamped on both axes, at +7.99
\* horizontally and at -7.99 vertically, and is still in the start cell.
C1_Witness ==
    /\ player.offset_x = PIN
    /\ player.offset_y = -PIN
    /\ player.x = START_X
    /\ player.y = START_Y

\* C2 as stated. Sub-tile offset invariant: offset_x and offset_y each lie in
\* the half-open range [-8, 8).
C2_HalfOpenRange ==
    /\ -EDGE <= player.offset_x /\ player.offset_x < EDGE
    /\ -EDGE <= player.offset_y /\ player.offset_y < EDGE

\* C2 as amended. In every reachable state offset_x and offset_y each lie in
\* the closed range [-8, 8]: +8 is reached by stepping into the cell to the
\* left or above, and by a move that lands on the boundary without crossing.
C2_ClosedRange ==
    /\ -EDGE <= player.offset_x /\ player.offset_x <= EDGE
    /\ -EDGE <= player.offset_y /\ player.offset_y <= EDGE

\* C2 witness: the player stepped into the cell above and its offset_y is +8.
C2_Witness ==
    /\ player.y = START_Y - 1
    /\ player.offset_y = EDGE

\* C3. Sub-tile wrap: in an update step that finds no Buildings tile at the
\* probed cell, an axis whose candidate offset crosses +8 gets offset -8 and
\* its cell index one more; crossing -8, offset +8 and its cell index one
\* less; not crossing, the same cell index and offset + delta.
C3_SubTileWrap ==
    [][\A dt \in DtSet :
        LET dx == delta_x(app, dt)
            dy == delta_y(app, dt)
            cx == Crossing(player.offset_x, dx)
            cy == Crossing(player.offset_y, dy)
        IN (Update(dt) /\ HasBuildings(map) /\ ~Obstructed(Probed(dx, dy))) =>
              /\ player'.x = player.x + cx
              /\ player'.y = player.y + cy
              /\ player'.offset_x = (CASE cx = 1 -> -EDGE
                                       [] cx = -1 -> EDGE
                                       [] OTHER -> player.offset_x + dx)
              /\ player'.offset_y = (CASE cy = 1 -> -EDGE
                                       [] cy = -1 -> EDGE
                                       [] OTHER -> player.offset_y + dy)]_vars

\* C3 witness: the player stepped one cell to the right and one cell down,
\* with both offsets wrapped to -8.
C3_Witness ==
    /\ player.x = START_X + 1
    /\ player.y = START_Y + 1
    /\ player.offset_x = -EDGE
    /\ player.offset_y = -EDGE

----------------------------------------------------------------------------
(* Input state machine and animation clock: the claims *)

\* the facing the claim gives for the held keys: Right, else Left, else Down,
\* else Up
FacingOf(a) ==
    IF a.d_pressed THEN "Right"
    ELSE IF a.a_pressed THEN "Left"
    ELSE IF a.s_pressed THEN "Down"
    ELSE "Up"

\* C9. Facing priority: an update step that recomputes the facing with a
\* movement key held sets the Direction to Right if right is held, else Left
\* if left is held, else Down if down is held, else Up; so once the key edges
\* have been processed, the facing is the one of the held keys (Up and Right
\* held: Right; Up alone: Up).
C9_FacingPriority ==
    /\ [][\A dt \in DtSet :
            (Update(dt) /\ app.update_last_move /\ AnyHeld(app)) =>
                player'.dir = FacingOf(app)]_vars
    /\ []((~app.update_last_move /\ AnyHeld(app)) => player.dir = FacingOf(app))

\* C9 witness: Up and Right are both held (and nothing else), their edges
\* have been processed by an update, and the player faces Right.
C9_Witness ==
    /\ app.w_pressed /\ app.d_pressed /\ ~app.a_pressed /\ ~app.s_pressed
    /\ ~app.update_last_move
    /\ app.ticks > 0
    /\ player.dir = "Right"

\* C10. Animation clock lifecycle: an update step that processes a key edge
\* leaves last_move_start equal to the tick counter (as just advanced) if a
\* movement key is held, and absent if none is held, in which case the
\* Direction is unchanged; so last_move_start is absent whenever no movement
\* key is held and the key edges have been processed.
C10_ClockLifecycle ==
    /\ [][\A dt \in DtSet :
            (Update(dt) /\ app.update_last_move) =>
                IF AnyHeld(app)
                THEN player'.last_move_start = Some(app'.ticks)
                ELSE /\ player'.last_move_start = None
                     /\ player'.dir = player.dir]_vars
    /\ []((~app.update_last_move /\ ~AnyHeld(app)) => player.last_move_start = None)

\* C10 witness: the player moved (it faces Left and has left the start cell),
\* all movement keys are released again and an update has cleared the clock.
C10_Witness ==
    /\ ~AnyHeld(app)
    /\ ~app.update_last_move
    /\ player.last_move_start = None
    /\ player.dir = "Left"
    /\ player.x = START_X - 1
    /\ app.ticks > 0

----------------------------------------------------------------------------
(* The camera: its specification and the claims *)

\* maps without obstructions: a wide one and one of 12 x 18 cells
CameraMaps == {StdMap(<<40, 30>>, {}, {}), StdMap(<<12, 18>>, {}, {})}

\* viewport arguments (in cells): the default, and two that put the start
\* cell on the edges of the dead zone of a small window
ViewArgs == {<<0, 0>>, <<8, 13>>, <<9, 14>>}

\* the window size given by render: 50 x 50 pixels once zoom-adjusted
Windows == {<<75, 75>>}

CameraNext ==
    \/ \E k \in ArrowKeys \cup {"D"} : Press(k)
    \/ \E k \in {"D"} : Release(k)
    \/ \E dt \in {800} : Update(dt)
    \/ \E win \in Windows : Render(win)

CameraInit == InitFrom(CameraMaps, ViewArgs, {<<>>})

CameraSpec == CameraInit /\ [][CameraNext]_vars

\* the player's pixel position: cell * 16 + offset, the offset cut to pixels
PixelX(p) == p.x * TILE + AsI32(p.offset_x)

PixelY(p) == p.y * TILE + AsI32(p.offset_y)

\* the map's size in pixels
MapPixelW == map.layers[1].size[1] * TILE

MapPixelH == map.layers[1].size[2] * TILE

\* C4 as stated. Camera clamp: after every update step the viewport origin
\* satisfies 0 <= view_x <= map_pixel_width - viewport_pixel_width and
\* 0 <= view_y <= map_pixel_height - viewport_pixel_height, the viewport
\* pixel size being the zoom-adjusted window size.
C4_CameraClamp ==
    [][\A dt \in DtSet :
        (Update(dt) /\ HasBuildings(map)) =>
            /\ 0 <= app'.view_x
            /\ app'.view_x <= MapPixelW - Zoomed(app'.view_w)
            /\ 0 <= app'.view_y
            /\ app'.view_y <= MapPixelH - Zoomed(app'.view_h)]_vars

\* an update took the origin `view` to `view2` as the dead zone [lo, hi]
\* asks for the player at pixel `pos`: the clamp of the unchanged origin
\* inside the zone, of the origin that puts the player on lo from one pixel
\* below lo, and of the one that puts it on hi from one pixel above hi
FollowedBy(pos, view, lo, hi, max, view2) ==
    /\ (lo <= pos - view /\ pos - view <= hi) => view2 = clamp_view(view, max)
    /\ pos - view = lo - 1 => view2 = clamp_view(pos - lo, max)
    /\ pos - view = hi + 1 => view2 = clamp_view(pos - hi, max)

\* C5 as stated. Camera dead-zone: with width the zoom-adjusted viewport
\* width, an update with the player at width/3, at 2*width/3 or between them
\* relative to the origin leaves the pre-clamp origin unchanged; from one
\* pixel below width/3 the player is put at width/3, from one pixel above
\* 2*width/3 at 2*width/3; the same vertically.
C5_DeadZoneAsStated ==
    [][\A dt \in DtSet :
        (Update(dt) /\ HasBuildings(map)) =>
            LET w == Zoomed(app.view_w)
                h == Zoomed(app.view_h)
                size == map.layers[1].size
            IN /\ FollowedBy(PixelX(player'), app.view_x, w \div 3, (2 * w) \div 3,
                             max_view(size[1], w), app'.view_x)
               /\ FollowedBy(PixelY(player'), app.view_y, h \div 3, (2 * h) \div 3,
                             max_view(size[2], h), app'.view_y)]_vars

\* C5 as amended. The dead zone is [third, 2 * third] with third the integer
\* quotient width div 3 (height div 3 vertically): inside it the pre-clamp
\* origin is unchanged, from one pixel below third the player is put at
\* third, and from one pixel above 2 * third at 2 * third.
C5_DeadZoneThirds ==
    [][\A dt \in DtSet :
        (Update(dt) /\ HasBuildings(map)) =>
            LET w == Zoomed(app.view_w)
                h == Zoomed(app.view_h)
                size == map.layers[1].size
            IN /\ FollowedBy(PixelX(player'), app.view_x, w \div 3, 2 * (w \div 3),
                             max_view(size[1], w), app'.view_x)
               /\ FollowedBy(PixelY(player'), app.view_y, h \div 3, 2 * (h \div 3),
                             max_view(size[2], h), app'.view_y)]_vars

\* C5 witness: in a 75 x 75 window (50 x 50 zoom-adjusted, third 16), after
\* one arrow-key nudge of the viewport and an update that undoes it, the
\* player sits exactly at the first third on both axes.
C5_Witness ==
    /\ app.view_w = 75 /\ app.view_h = 75
    /\ nudges = 1
    /\ app.ticks > 0
    /\ app.view_x = 144
    /\ PixelX(player) - app.view_x = 16
    /\ PixelY(player) - app.view_y = 16

----------------------------------------------------------------------------
(* Rendering: its specification and the claims *)

\* every set of tiles on the cells around the start cell's feet, as the
\* tiles of layer 1 (the Buildings layer), with a Front tile in each row
RenderMaps ==
    {StdMap(<<40, 30>>, b, {<<9, 15>>, <<10, 16>>, <<11, 17>>}) : b \in SUBSET Near}

\* the first n layers of a map
FirstLayers(m, n) == [m EXCEPT !.layers = SubSeq(@, 1, n)]

\* maps of 0, 1, 2, 3 and 4 layers
ShortMaps ==
    {FirstLayers(StdMap(<<40, 30>>, Near, {<<10, 16>>}), n) : n \in 0..4}

\* an event placing the farmer and two characters, one of them off the map
RenderEvents ==
    { << [name |-> "farmer", pos |-> <<10, 15>>, dir |-> 2],
         [name |-> "Lewis", pos |-> <<9, 14>>, dir |-> 1],
         [name |-> "Robin", pos |-> <<-1, 3>>, dir |-> 3] >> }

\* window sizes: the initial one, and one that culls column 11 and row 18
RenderWindows == {<<WINDOW_W, WINDOW_H>>, <<160, 272>>}

RenderNext ==
    \/ \E k \in {"S"} : Press(k)
    \/ \E k \in {"S"} : Release(k)
    \/ \E dt \in {1600} : Update(dt)
    \/ \E win \in RenderWindows : Render(win)

RenderInit == InitFrom(RenderMaps \cup ShortMaps, {<<0, 0>>}, RenderEvents)

RenderSpec == RenderInit /\ [][RenderNext]_vars

\* the positions of the draw operations of the step just taken
Ops == 1..Len(draws)

IsTile(j, li) == draws[j].kind = "tile" /\ draws[j].layer = li

IsPlayer(j) == draws[j].kind = "player"

IsNpc(j) == draws[j].kind = "npc"

\* the tiles of the interleaved layer (layer 1), in iteration order
Interleaved == IF Len(map.layers) >= 3 THEN map.layers[2].tiles ELSE <<>>

\* the claimed trigger: tile i of the interleaved layer is in row
\* player.y + 1, at a column >= player.x, and the tile visited before it was
\* at a column < player.x
Trigger(i) ==
    /\ Interleaved[i][2] = player.y + 1
    /\ Interleaved[i][1] >= player.x
    /\ i > 1
    /\ Interleaved[i - 1][1] < player.x

\* layer 1 is drawn with the player: it is not the final layer, it is
\* visible and it is not the Paths layer
InterleavedDrawn ==
    /\ Len(map.layers) >= 3
    /\ map.layers[2].visible
    /\ map.layers[2].id # "Paths"

\* tile i of the interleaved layer was drawn (not culled)
Drawn(i) ==
    \E j \in Ops :
        IsTile(j, 1) /\ <<draws[j].x, draws[j].y>> = Interleaved[i]

\* what the claim expects of the pass over the interleaved layer from tile i
\* on: <<>> for the player, drawn right before tile i when tile i triggers
\* it, and the cell of every tile drawn
RECURSIVE ExpectedFrom(_)
ExpectedFrom(i) ==
    IF i > Len(Interleaved) THEN <<>>
    ELSE    (IF Trigger(i) THEN << <<>> >> ELSE <<>>)
         \o (IF Drawn(i) THEN << Interleaved[i] >> ELSE <<>>)
         \o ExpectedFrom(i + 1)

\* what was drawn while layer 1 was: <<>> for the player (its first part),
\* the cell for a tile
Seen ==
    LET marks == SelectSeq(draws,
                     LAMBDA op : \/ op.kind = "tile" /\ op.layer = 1
                                 \/ op.kind = "player" /\ op.part = "base")
    IN [j \in 1..Len(marks) |->
           IF marks[j].kind = "player" THEN <<>> ELSE <<marks[j].x, marks[j].y>>]

\* C6. Depth interleave trigger: while the interleaved layer is drawn, the
\* player is drawn immediately before a tile exactly when that tile is in
\* row player.y + 1 at a column >= player.x and the tile visited before it
\* was at a column < player.x; with tiles at columns player.x - 1 and
\* player.x of that row, the player's draw operations lie strictly between
\* those two tiles'.
C6_InterleaveTrigger ==
    (draws # <<>> /\ InterleavedDrawn) =>
        /\ Seen = ExpectedFrom(1)
        /\ \A j1, j2 \in Ops :
              (/\ IsTile(j1, 1) /\ IsTile(j2, 1)
               /\ draws[j1].y = player.y + 1 /\ draws[j2].y = player.y + 1
               /\ draws[j1].x = player.x - 1 /\ draws[j2].x = player.x)
              => /\ \E jp \in Ops : IsPlayer(jp)
                 /\ \A jp \in Ops : IsPlayer(jp) => (j1 < jp /\ jp < j2)

\* C6 witness: a render pass drew the tiles at columns player.x - 1,
\* player.x and player.x + 1 of row player.y + 1 and the player right after
\* the first of them.
C6_Witness ==
    \E j \in Ops :
        /\ j + 2 <= Len(draws)
        /\ IsTile(j, 1) /\ draws[j].x = player.x - 1 /\ draws[j].y = player.y + 1
        /\ IsPlayer(j + 1) /\ draws[j + 1].part = "base"
        /\ \E j2, j3 \in Ops :
              /\ j + 1 < j2 /\ j2 < j3
              /\ IsTile(j2, 1) /\ draws[j2].x = player.x /\ draws[j2].y = player.y + 1
              /\ IsTile(j3, 1) /\ draws[j3].x = player.x + 1 /\ draws[j3].y = player.y + 1

\* C7 as stated. Occlusion order: in the draw sequence of the interleaved
\* layer every tile of a row above the player's (tile y < player.y) is drawn
\* before the player, and every tile of the player's row or of a row below
\* it (tile y >= player.y) after the player.
C7_OcclusionAsStated ==
    \A jt, jp \in Ops :
        (IsTile(jt, 1) /\ IsPlayer(jp)) =>
            /\ draws[jt].y < player.y => jt < jp
            /\ draws[jt].y >= player.y => jt > jp

\* C7 as amended. Whenever the player is drawn in the interleaved layer,
\* every tile of that layer in the player's row or above it (tile
\* y <= player.y) is drawn before the player, every tile in a row below
\* player.y + 1 after it, and a tile of row player.y + 1 before the player if
\* its column is < player.x and after it if its column is >= player.x.
C7_OcclusionFeetRow ==
    \A jt, jp \in Ops :
        (IsTile(jt, 1) /\ IsPlayer(jp)) =>
            /\ draws[jt].y <= player.y => jt < jp
            /\ draws[jt].y > player.y + 1 => jt > jp
            /\ (draws[jt].y = player.y + 1 /\ draws[jt].x < player.x) => jt < jp
            /\ (draws[jt].y = player.y + 1 /\ draws[jt].x >= player.x) => jt > jp

\* C7 witness: the player was drawn after a tile of its own row and a tile
\* of row player.y + 1 to its left, and before a tile of row player.y + 2.
C7_Witness ==
    \E j1, j2, jp, j3 \in Ops :
        /\ j1 < j2 /\ j2 < jp /\ jp < j3
        /\ IsTile(j1, 1) /\ draws[j1].y = player.y
        /\ IsTile(j2, 1) /\ draws[j2].y = player.y + 1 /\ draws[j2].x < player.x
        /\ IsPlayer(jp)
        /\ IsTile(j3, 1) /\ draws[j3].y = player.y + 2

\* the place of a draw operation in the claimed order of a render pass over
\* n layers: the non-final layers by number, then the NPCs, then the final
\* layer
Rank(j, n) ==
    IF draws[j].kind = "clear" THEN -1
    ELSE IF IsNpc(j) THEN n - 1
    ELSE IF draws[j].layer = n - 1 THEN n
    ELSE draws[j].layer

\* C8. Layer draw order: in every render pass the draw operations of the
\* non-final layers come first, in layer order, then the NPCs', then the
\* final layer's, and no player draw is emitted while the final layer is
\* drawn, whatever the number of layers.
C8_LayerOrder ==
    LET n == Len(map.layers) IN
    /\ \A j, k \in Ops : j < k => Rank(j, n) <= Rank(k, n)
    /\ \A j \in Ops : IsPlayer(j) => draws[j].layer < n - 1

\* C8 witness: a render pass drew a tile of layer 0, the player, an NPC and
\* a tile of the final layer.
C8_Witness ==
    \E j1, j2, j3, j4 \in Ops :
        /\ IsTile(j1, 0) /\ IsPlayer(j2) /\ IsNpc(j3)
        /\ IsTile(j4, Len(map.layers) - 1)
        /\ Len(map.layers) = 5

----------------------------------------------------------------------------
(* Movement: the axis deltas and the independence of the axes *)

\* the delta the claim gives an axis: -speed * dt when only the negative key
\* (left, up) is held, +speed * dt when only the positive one (right, down)
\* is, zero when neither or both are
AxisDelta(neg, pos, dt) ==
    IF neg /\ ~pos THEN -MoveDelta(dt)
    ELSE IF pos /\ ~neg THEN MoveDelta(dt)
    ELSE 0

\* C11 as stated. Axis delta: in an update step the horizontal delta is
\* -speed*dt when only left is held, +speed*dt when only right is held and
\* zero when neither or both are held, and likewise the vertical delta for up
\* and down; so holding both opposing keys of an axis leaves that axis'
\* offset and cell unchanged.
C11_AxisDelta ==
    [][\A dt \in DtSet :
        Update(dt) =>
            /\ delta_x(app, dt) = AxisDelta(app.a_pressed, app.d_pressed, dt)
            /\ delta_y(app, dt) = AxisDelta(app.w_pressed, app.s_pressed, dt)
            /\ (app.a_pressed /\ app.d_pressed) =>
                  (player'.x = player.x /\ player'.offset_x = player.offset_x)
            /\ (app.w_pressed /\ app.s_pressed) =>
                  (player'.y = player.y /\ player'.offset_y = player.offset_y)]_vars

\* the player an update of dt leaves, from the player p with the app a
UpdatedPlayer(a, p, dt) ==
    moved(map,
          IF a.update_last_move
          THEN recompute_facing(a, p, wrapping_add(a.ticks, Millis(dt))) ELSE p,
          delta_x(a, dt), delta_y(a, dt))

\* the app a with the given keys held instead, as the key events leave it
WithVertical(a, w, s) ==
    [a EXCEPT !.w_pressed = w, !.s_pressed = s, !.update_last_move = TRUE]

WithHorizontal(a, l, r) ==
    [a EXCEPT !.a_pressed = l, !.d_pressed = r, !.update_last_move = TRUE]

\* C12 as stated. Axis independence: the x and offset_x an update step
\* leaves are the ones the same update leaves from the same state with any
\* other vertical keys held, and the y and offset_y the ones it leaves with
\* any other horizontal keys held.
C12_AxisIndependence ==
    [][\A dt \in DtSet :
        (Update(dt) /\ HasBuildings(map)) =>
            \A k1, k2 \in BOOLEAN :
                LET pv == UpdatedPlayer(WithVertical(app, k1, k2), player, dt)
                    ph == UpdatedPlayer(WithHorizontal(app, k1, k2), player, dt)
                IN /\ player'.x = pv.x
                   /\ player'.offset_x = pv.offset_x
                   /\ player'.y = ph.y
                   /\ player'.offset_y = ph.offset_y]_vars

----------------------------------------------------------------------------
(* The sprite compositor: its specification.  draw_player, draw_character, *)
(* image_for_texture and image_for_tile_reference are functions of the     *)
(* Player (its parts, facing and last_move_start), of the Characters and   *)
(* of the tick counter: the initial states draw these from bounded sets,   *)
(* and the render step applies the functions to them.                      *)

\* the hat main leaves commented out (hats.xnb, 240 pixels wide)
Hat == Info(240, 2, <<20, 20>>, <<-2, -2>>, <<Some(0), Some(1), Some(3), Some(2)>>)

\* direction tables: the farmer's, one with a single row for all facings, and
\* two with absent entries
DirTables ==
    { base_dir_info,
      <<Some(0), Some(0), Some(0), Some(0)>>,
      <<Some(1), None, Some(3), Some(2)>>,
      <<None, Some(1), None, Some(1)>> }

\* the parts of main with the direction table d for every part
WithTable(d) ==
    [base      |-> [PlayerParts.base EXCEPT !.dirs = d],
     bottom    |-> [PlayerParts.bottom EXCEPT !.dirs = d],
     arms      |-> [PlayerParts.arms EXCEPT !.dirs = d],
     hairstyle |-> [PlayerParts.hairstyle EXCEPT !.dirs = d],
     hat       |-> None,
     pants     |-> [PlayerParts.pants EXCEPT !.dirs = d],
     shirt     |-> [PlayerParts.shirt EXCEPT !.dirs = d],
     accessory |-> [PlayerParts.accessory EXCEPT !.dirs = d]]

\* hairstyles over sheets 4 and 8 tiles wide, frame indices, tile sizes and
\* direction tables
Hairstyles ==
    { Info(w, i, t, <<0, 0>>, d) :
          w \in {64, 128}, i \in {0, 5}, t \in {<<16, 16>>, <<16, 32>>},
          d \in {base_dir_info, <<Some(0), Some(0), Some(0), Some(0)>>} }

\* the sets of parts a Player is drawn with: those of main, those of main
\* with another direction table or another hairstyle, each with and without
\* the hat
SpriteSets ==
    LET bare == {PlayerParts} \cup {WithTable(d) : d \in DirTables}
                  \cup {[PlayerParts EXCEPT !.hairstyle = h] : h \in Hairstyles}
    IN bare \cup {[ps EXCEPT !.hat = Some(Hat)] : ps \in bare}

\* the tick counter and last_move_start at the render: <<ticks, start>>
Clocks ==
    { <<0, None>>, <<450, None>>, <<0, Some(0)>>, <<149, Some(0)>>,
      <<150, Some(0)>>, <<310, Some(10)>>, <<450, Some(0)>> }

\* an event placing the farmer and a character with each direction code,
\* one more of them off the map
SpriteEvents ==
    { << [name |-> "farmer", pos |-> <<10, 15>>, dir |-> 0],
         [name |-> "Abigail", pos |-> <<8, 14>>, dir |-> 0],
         [name |-> "Lewis", pos |-> <<9, 14>>, dir |-> 1],
         [name |-> "Marnie", pos |-> <<12, 13>>, dir |-> 2],
         [name |-> "Robin", pos |-> <<11, 0>>, dir |-> 3],
         [name |-> "Penny", pos |-> <<-1, 2>>, dir |-> 0] >> }

\* a map that has the player drawn in its start cell
SpriteMap == StdMap(<<40, 30>>, {<<9, 16>>, <<10, 16>>}, {})

SpriteInit ==
    /\ map = [SpriteMap EXCEPT !.layers = SortLayers(@)]
    /\ \E e \in SpriteEvents : characters = characters_for_event(e)
    /\ \E ps \in SpriteSets, d \in Dirs, c \in Clocks :
          /\ player = [InitPlayer EXCEPT !.parts = ps, !.dir = d,
                                         !.last_move_start = c[2]]
          /\ app = [InitApp(map, <<0, 0>>) EXCEPT
                        !.ticks = c[1], !.update_last_move = IsSome(c[2])]
    /\ draws = <<>>
    /\ status = "running"
    /\ nudges = 0

SpriteNext ==
    \/ \E k \in {"D"} : Press(k)
    \/ \E k \in {"D"} : Release(k)
    \/ \E dt \in {800} : Update(dt)
    \/ \E win \in {<<WINDOW_W, WINDOW_H>>} : Render(win)

SpriteSpec == SpriteInit /\ [][SpriteNext]_vars

\* the draw operations of the player's parts, in the order emitted
PlayerOps == SelectSeq(draws, LAMBDA op : op.kind = "player")

\* the part names of the player, and the part's TextureTileInfo
PartNames ==
    {"base", "bottom", "hairstyle", "hat", "arms", "pants", "shirt", "accessory"}

PartInfo(part) ==
    CASE part = "base" -> player.parts.base
      [] part = "bottom" -> player.parts.bottom
      [] part = "hairstyle" -> player.parts.hairstyle
      [] part = "hat" -> Unwrap(player.parts.hat)
      [] part = "arms" -> player.parts.arms
      [] part = "pants" -> player.parts.pants
      [] part = "shirt" -> player.parts.shirt
      [] part = "accessory" -> player.parts.accessory

\* the part is one the player has: every part but a hat that is not equipped
Equipped(part) == part = "hat" => IsSome(player.parts.hat)

\* the part's direction table has no entry for the facing d
Absent(info, d) == info.dirs[DirOrd(d) + 1] = None

----------------------------------------------------------------------------
(* The sprite compositor: the claims *)

ExpectedParts ==
       <<"base", "bottom", "hairstyle">>
    \o (IF IsSome(player.parts.hat) THEN <<"hat">> ELSE <<>>)
    \o <<"arms", "pants", "shirt">>
    \o (IF player.dir # "Up" THEN <<"accessory">> ELSE <<>>)

\* the ticks elapsed since the movement began
Elapsed == app.ticks - Unwrap(player.last_move_start)

\* the frame of the 3-frame walk cycle
WalkFrame ==
    IF IsSome(player.last_move_start) THEN (Elapsed \div 150) % 3 ELSE 0

\* the frame offset a part was drawn with: the frame index drawn less the
\* part's base index
Frame(op) == op.index - PartInfo(op.part).index

Animated == {"base", "bottom", "arms", "pants"}

\* C15. Sprite part order: whenever the player is drawn, its parts are
\* emitted in the order body, lower-body, hair, headwear (only if equipped),
\* arms, legwear, shirt, facial accessory (only if the facing is not Up);
\* body, lower-body, arms and legwear with the walk cycle's frame offset,
\* hair, headwear, shirt and accessory with frame offset 0.
C15_PartOrder ==
    PlayerOps # <<>> =>
        /\ [j \in 1..Len(PlayerOps) |-> PlayerOps[j].part] = ExpectedParts
        /\ \A j \in 1..Len(PlayerOps) :
              Frame(PlayerOps[j]) =
                  IF PlayerOps[j].part \in Animated THEN WalkFrame ELSE 0

\* C15 witness: the player was drawn with its hat and its accessory, all
\* eight parts, in the second frame of the walk cycle.
C15_Witness ==
    /\ Len(PlayerOps) = 8
    /\ PlayerOps[4].part = "hat"
    /\ PlayerOps[8].part = "accessory"
    /\ PlayerOps[1].index = player.parts.base.index + 1

\* the source rectangle the claim gives
ClaimedRect(index, cols, tile_w, tile_h, row_offset, flipped) ==
    LET x == (index % cols) * tile_w
        y == (index \div cols + row_offset) * tile_h
    IN IF flipped THEN <<x + tile_w, y, -tile_w, tile_h>>
       ELSE <<x, y, tile_w, tile_h>>

\* the TextureTileInfo a sprite's draw operation was made from
InfoOf(op) ==
    IF op.kind = "player" THEN PartInfo(op.part)
    ELSE LET i == CHOOSE i \in 1..Len(characters) : characters[i].name = op.part
         IN characters[i].texture

\* the number of tile columns of a sheet
Cols(info) == info.width \div info.tile_size[1]

\* C16. Index resolution: the source rectangle of every sprite drawn is
\* ((index mod cols) * tile_w, (index div cols + row_offset) * tile_h,
\* tile_w, tile_h), and (x + tile_w, y, -tile_w, tile_h) when flipped; with
\* cols = 4, tiles of 16 x 16 and index 5 (row offset 0) it is
\* (16, 16, 16, 16), flipped (32, 16, -16, 16); and equal inputs give equal
\* rectangles.
C16_IndexResolution ==
    /\ \A j \in Ops :
          draws[j].kind \in {"player", "npc"} =>
              LET info == InfoOf(draws[j])
                  tile == info.tile_size
              IN /\ draws[j].src = ClaimedRect(draws[j].index, Cols(info), tile[1],
                                               tile[2], draws[j].row, draws[j].flip)
                 /\ (/\ Cols(info) = 4 /\ tile = <<16, 16>>
                     /\ draws[j].index = 5 /\ draws[j].row = 0) =>
                        draws[j].src = IF draws[j].flip THEN <<32, 16, -16, 16>>
                                       ELSE <<16, 16, 16, 16>>
    /\ \A j, k \in Ops :
          (/\ draws[j].kind \in {"player", "npc"}
           /\ draws[k].kind \in {"player", "npc"}
           /\ Cols(InfoOf(draws[j])) = Cols(InfoOf(draws[k]))
           /\ InfoOf(draws[j]).tile_size = InfoOf(draws[k]).tile_size
           /\ draws[j].index = draws[k].index
           /\ draws[j].row = draws[k].row
           /\ draws[j].flip = draws[k].flip) => draws[j].src = draws[k].src

\* C16 witness: a part with 4 columns of 16 x 16 tiles and index 5 was drawn
\* flipped, from the rectangle (32, 16, -16, 16).
C16_Witness ==
    \E j \in Ops :
        /\ draws[j].kind = "player"
        /\ draws[j].flip
        /\ draws[j].index = 5
        /\ Cols(InfoOf(draws[j])) = 4
        /\ draws[j].src = <<32, 16, -16, 16>>

\* C17. Animation frame: the frame offset of an animated part of the player
\* in a render pass is ((tick - last_move_start) div 150) mod 3 when
\* last_move_start is present and 0 when it is absent; so it is 0 after 0,
\* 149 and 450 ticks and 1 after 150.
C17_AnimationFrame ==
    \A j \in 1..Len(PlayerOps) :
        PlayerOps[j].part \in Animated =>
            IF IsSome(player.last_move_start)
            THEN /\ Frame(PlayerOps[j]) = (Elapsed \div 150) % 3
                 /\ Elapsed \in {0, 149, 450} => Frame(PlayerOps[j]) = 0
                 /\ Elapsed = 150 => Frame(PlayerOps[j]) = 1
            ELSE Frame(PlayerOps[j]) = 0

\* C17 witness: the player was drawn 450 ticks after its movement began,
\* with the first frame of the walk cycle again.
C17_Witness ==
    /\ IsSome(player.last_move_start)
    /\ Elapsed = 450
    /\ PlayerOps # <<>>
    /\ PlayerOps[1].part = "base"
    /\ PlayerOps[1].index = player.parts.base.index

\* the placements of the events
Placements == UNION {{e[i] : i \in 1..Len(e)} : e \in SpriteEvents}

\* the placement a character was created from
PlacementOf(c) == CHOOSE pl \in Placements : pl.name = c.name

\* C19. Cutscene direction translation: a character placed with direction
\* code 0, 1, 2, 3 is created facing Up, Right, Down, Left (of ordinal 2, 1,
\* 0, 3 in the Direction enum), at the cell of its placement and with
\* sub-tile offset (0, 0); every placement but the farmer's has its character.
C19_DirectionTranslation ==
    /\ \A i \in 1..Len(characters) :
          LET c == characters[i]
              pl == PlacementOf(c)
          IN /\ c.dir = <<"Up", "Right", "Down", "Left">>[pl.dir + 1]
             /\ DirOrd(c.dir) = <<2, 1, 0, 3>>[pl.dir + 1]
             /\ <<c.x, c.y>> = pl.pos
             /\ <<c.offset_x, c.offset_y>> = <<0, 0>>
    /\ \A pl \in Placements :
          pl.name # "farmer" =>
              \E i \in 1..Len(characters) : characters[i].name = pl.name

\* C19 witness: the character placed with direction code 0 faces Up and a
\* render pass drew it from the row of its sheet for Up (the third row).
C19_Witness ==
    \E i \in 1..Len(characters) :
        /\ PlacementOf(characters[i]).dir = 0
        /\ characters[i].dir = "Up"
        /\ \E j \in Ops :
              /\ IsNpc(j)
              /\ draws[j].part = characters[i].name
              /\ draws[j].row = 2

----------------------------------------------------------------------------
(* The camera's frame condition *)

\* C18 as stated. Camera frame condition: every key press or release event
\* (movement keys and all other keys) and every render pass leaves view_x
\* and view_y unchanged; only an update step changes them.
C18_CameraFrame ==
    [][(\/ \E k \in Keys : Press(k)
        \/ \E k \in Keys : Release(k)
        \/ \E win \in Windows : Render(win)) =>
           (app'.view_x = app.view_x /\ app'.view_y = app.view_y)]_vars

----------------------------------------------------------------------------
(* Skipped layers and the missing obstruction layer: the specification *)

LayerIds == {"Back", "Buildings", "Paths"}

\* every map of three layers with these ids, visible or not, each layer with
\* the tiles that have the player drawn in its start cell
LayerMaps ==
    { [tile_size |-> <<TILE, TILE>>,
       layers |-> [i \in 1..3 |->
                      Layer(ids[i], vis[i], <<40, 30>>,
                            RawTiles({<<10, 15>>, <<9, 16>>, <<10, 16>>}))]] :
          ids \in [1..3 -> LayerIds], vis \in [1..3 -> BOOLEAN] }

LayerNext ==
    \/ \E k \in {"D"} : Press(k)
    \/ \E k \in {"D"} : Release(k)
    \/ \E dt \in {800} : Update(dt)
    \/ \E win \in {<<WINDOW_W, WINDOW_H>>} : Render(win)

LayerInit == InitFrom(LayerMaps, {<<0, 0>>}, {<<>>})

LayerSpec == LayerInit /\ [][LayerNext]_vars

\* layer number li (from 0) is one the claim says is skipped
Skipped(li) ==
    map.layers[li + 1].id = "Paths" \/ ~map.layers[li + 1].visible

\* C14. Skipped layers: in a render pass a layer whose id is "Paths" or
\* whose visible flag is false emits no tile draw operation and no draw of
\* the player, whatever its position in the layer list and its tiles.
C14_SkippedLayers ==
    \A li \in 0..(Len(map.layers) - 1) :
        Skipped(li) =>
            \A j \in Ops :
                /\ ~IsTile(j, li)
                /\ ~(IsPlayer(j) /\ draws[j].layer = li)

\* C14 witness: a render pass over a visible Paths layer, an invisible
\* layer in the interleaved position and a final layer that is drawn: it
\* drew the final layer's tiles only.
C14_Witness ==
    /\ Len(map.layers) = 3
    /\ map.layers[1].id = "Paths" /\ map.layers[1].visible
    /\ map.layers[2].id = "Buildings" /\ ~map.layers[2].visible
    /\ ~Skipped(2)
    /\ Len(draws) = 4
    /\ \A j \in Ops : j > 1 => IsTile(j, 2)

\* C20. Missing obstruction layer is fatal: an update step on a map with no
\* layer of id "Buildings" ends in the fatal error state, leaves the
\* player's cell and offsets and the viewport origin as they were, and no
\* step follows it.
C20_MissingBuildingsFatal ==
    /\ [][\A dt \in DtSet :
            (Update(dt) /\ ~HasBuildings(map)) =>
                /\ status' = "panicked"
                /\ <<player'.x, player'.y>> = <<player.x, player.y>>
                /\ <<player'.offset_x, player'.offset_y>>
                      = <<player.offset_x, player.offset_y>>
                /\ <<app'.view_x, app'.view_y>> = <<app.view_x, app.view_y>>]_vars
    /\ [][status # "panicked"]_vars

\* C20 witness: on a map with no Buildings layer an update with the right
\* key held has failed, the player where it started.
C20_Witness ==
    /\ ~HasBuildings(map)
    /\ status = "panicked"
    /\ app.d_pressed
    /\ app.ticks > 0
    /\ <<player.x, player.offset_x>> = <<START_X, 0>>

----------------------------------------------------------------------------
(* Movement: the cell under the player's feet *)

\* the cell the player's feet occupy: the one below the player's cell
Feet(x, y) == <<x, y + 1>>

\* C21. Feet cell never obstructed: if there is no Buildings tile at the
\* feet cell of the player's initial cell, then after any sequence of key
\* events and update steps (diagonal moves crossing both boundaries in one
\* step included) there is none at the feet cell of the player's cell.
C21_FeetCellFree ==
    ~Obstructed(Feet(START_X, START_Y)) => ~Obstructed(Feet(player.x, player.y))

\* C21 witness: the player has stepped diagonally, right and down in one
\* update, past an obstructed cell: the feet cell of the cell to the right
\* of its start is obstructed, its own is not.
C21_Witness ==
    /\ ~Obstructed(Feet(START_X, START_Y))
    /\ Obstructed(Feet(START_X + 1, START_Y))
    /\ <<player.x, player.y>> = <<START_X + 1, START_Y + 1>>
    /\ app.ticks = 160

----------------------------------------------------------------------------
(* Rendering: how often the player is drawn, and culling *)

\* how many times the player was drawn in the step just taken: once per
\* draw of its first part
TimesDrawn ==
    Len(SelectSeq(draws, LAMBDA op : op.kind = "player" /\ op.part = "base"))

\* C22 as stated. Player drawn exactly once: in every render pass of a map
\* with at least three layers the player is drawn exactly once, never zero
\* times and never more than once.
C22_DrawnExactlyOnce ==
    (draws # <<>> /\ Len(map.layers) >= 3) => TimesDrawn = 1

\* the tile lies outside the viewport's cell bounds of the render pass just
\* made: x < view_x/16, x > view_w, y < view_y/16 or y > view_h, view_w and
\* view_h the window's size in cells added to view_x/16 and view_y/16
Culled(t) ==
    LET left == TruncDiv(app.view_x, TILE)
        top == TruncDiv(app.view_y, TILE)
        view_w == TruncDiv(app.view_w, TILE) + left
        view_h == TruncDiv(app.view_h, TILE) + top
    IN t[1] < left \/ t[1] > view_w \/ t[2] < top \/ t[2] > view_h

\* the positions in the draw sequence of the player's draw operations
PlayerAt == {j \in Ops : IsPlayer(j)}

\* the position in the draw sequence of tile k of the interleaved layer
TileAtOp(k) ==
    CHOOSE j \in Ops : IsTile(j, 1) /\ <<draws[j].x, draws[j].y>> = Interleaved[k]

\* C23. Culling does not affect the interleave: in a render pass, a tile of
\* the interleaved layer that satisfies the interleave condition but lies
\* outside the viewport's cell bounds emits no draw operation, and the
\* player is drawn at its point of the sequence: after every tile drawn
\* that comes before it and before every tile drawn that comes after it;
\* and the tile visited before counts for the condition whether it was
\* culled or not, so that the player is drawn exactly when some tile
\* satisfies the condition.
C23_CullingKeepsInterleave ==
    (draws # <<>> /\ InterleavedDrawn) =>
        /\ \A i \in 1..Len(Interleaved) :
              (Trigger(i) /\ Culled(Interleaved[i])) =>
                  /\ ~Drawn(i)
                  /\ PlayerAt # {}
                  /\ \A k \in 1..Len(Interleaved), jp \in PlayerAt :
                        Drawn(k) =>
                            IF k < i THEN TileAtOp(k) < jp ELSE TileAtOp(k) > jp
        /\ \A i \in 1..Len(Interleaved) : Culled(Interleaved[i]) => ~Drawn(i)
        /\ (PlayerAt # {}) <=> (\E i \in 1..Len(Interleaved) : Trigger(i))

\* C23 witness: the tile that triggered the player's draw was culled, after
\* a tile that was drawn and before one that was.
C23_Witness ==
    /\ draws # <<>>
    /\ InterleavedDrawn
    /\ \E i \in 1..Len(Interleaved) :
          /\ Trigger(i)
          /\ Culled(Interleaved[i])
          /\ ~Drawn(i)
          /\ \E k1, k2 \in 1..Len(Interleaved), jp \in PlayerAt :
                /\ k1 < i /\ i < k2
                /\ Drawn(k1) /\ Drawn(k2)
                /\ TileAtOp(k1) < jp /\ jp < TileAtOp(k2)

----------------------------------------------------------------------------
(* The animation clock and the key edges *)

\* the movement key k is held
Held(a, k) ==
    CASE k = "W" -> a.w_pressed
      [] k = "A" -> a.a_pressed
      [] k = "S" -> a.s_pressed
      [] k = "D" -> a.d_pressed
      [] OTHER -> FALSE

\* a press of k that is not a movement-key edge: of a key that is not a
\* movement key, or of a movement key already held
PressNoEdge(k) == Press(k) /\ ~(k \in MoveKeys /\ ~Held(app, k))

\* a release of k that is not a movement-key edge: of a key that is not a
\* movement key, or of a movement key that is not held
ReleaseNoEdge(k) == Release(k) /\ ~(k \in MoveKeys /\ Held(app, k))

\* C24 as stated. Animation clock is restarted only by movement-key edges:
\* when no key edge is waiting for an update (every edge sets
\* update_last_move and every update clears it, so none is when it is
\* false) and a key event follows that is not a movement-key edge (a press
\* of a held movement key, a release of one not held, a press or release of
\* another key), the update step after it leaves the player's Direction and
\* last_move_start as they were.
C24_RestartOnlyOnEdges ==
    [][\A k \in Keys, dt \in DtSet :
        (~app.update_last_move /\ (PressNoEdge(k) \/ ReleaseNoEdge(k))) =>
            LET p == UpdatedPlayer(app', player', dt)
            IN /\ p.dir = player.dir
               /\ p.last_move_start = player.last_move_start]_vars

----------------------------------------------------------------------------
(* The tick counter at the end of its range *)

\* the tick counts 2^32 - 160 and 2^32 - 80, which updates alone reach
LateTicks == {wrapping_sub(0, 160), wrapping_sub(0, 80)}

\* a run that has lasted for 49.7 days without a key event: the player at
\* the start cell, the viewport where it was
ClockInit ==
    /\ map = [SpriteMap EXCEPT !.layers = SortLayers(@)]
    /\ characters = characters_for_event(<<>>)
    /\ player = InitPlayer
    /\ \E t \in LateTicks : app = [InitApp(map, <<0, 0>>) EXCEPT !.ticks = t]
    /\ draws = <<>>
    /\ status = "running"
    /\ nudges = 0

ClockNext ==
    \/ \E k \in {"A", "S"} : Press(k)
    \/ \E k \in {"A", "S"} : Release(k)
    \/ \E dt \in DtSet : Update(dt)
    \/ \E win \in {<<WINDOW_W, WINDOW_H>>} : Render(win)

ClockSpec == ClockInit /\ [][ClockNext]_vars

\* C25 as stated. Tick monotonicity and non-negative elapsed time: the tick
\* counter never decreases across an update step, and in every reachable
\* state where last_move_start is present it is at most the tick counter (so
\* that ticks - last_move_start, computed at render, does not underflow).
C25_TicksMonotonic ==
    /\ [][\A dt \in DtSet : Update(dt) => u32_le(app.ticks, app'.ticks)]_vars
    /\ [](IsSome(player.last_move_start) =>
              u32_le(Unwrap(player.last_move_start), app.ticks))

====
